---------------------------- MODULE Spec2Model ----------------------------
(***************************************************************************)
(* ECG monitor (l432-ecg-monitor): the sampling interrupt, the main loop   *)
(* of the display and the Pan-Tompkins QRS detector it drives.             *)
(*                                                                         *)
(* Numbers.  raw samples, dcblock, the RR tracker and all indices are C    *)
(* integers and are modelled as integers.  lowpass, highpass, derivative   *)
(* and squared_derivative are C floats that only ever hold sums and        *)
(* products of integers (far below 2^24 for the inputs of this model), so  *)
(* they are modelled as the integers they hold.  integral, the peak        *)
(* estimates and the thresholds are C floats with fractional values: they  *)
(* are modelled in fixed point, as multiples of 1/One with One = 2^FracBits*)
(* and every store rounded to the nearest multiple.                        *)
(***************************************************************************)
EXTENDS Integers, Naturals, Sequences, FiniteSets, TLC

\* ------------------------------------------------------------ constants

SAMPLING_FREQUENCY == 200
BUFFER_SIZE == 500
WINDOW_SIZE == 30
DELAY_200ms_IN_SAMPLES == 40
DELAY_360ms_IN_SAMPLES == 72
MAX_RR_AVERAGE_INDEX == 7
RR_INTERVALS_TO_SKIP == 7
WARMUP_SAMPLES == 600
SLOPE_WINDOW == 10
RRLOW_INIT == 100
RRHIGH_INIT == 200
MENU_SIZE == 3
MENU_ITEM_PAUSE == 0
UINT16_MOD == 65536
SECONDS_PER_MINUTE == 60
LCD_BRIGHTNESS_INIT == 130
MIN_BRIGHTNESS == 80
MAX_BRIGHTNESS == 250
BRIGHTNESS_STEP == 10
UINT8_MOD == 256

\* ------------------------------------------------------------ bounds

\* fractional bits of the fixed-point model of the C floats
FracBits == 12
\* value of the ADC when the input is at rest
RawBase == 2048
\* height of an input pulse above RawBase (one sample wide)
PulseAmp == 1
\* Spec: the ISR publishes at most MaxFill samples
MaxFill == 3
\* SpecDet: samples published; a pulse may arrive at PulseFrom and every
\* PulseStep samples after it, MaxPulses times in all
MaxIndex == 760
PulseFrom == 560
PulseStep == 10
MaxPulses == 2
\* SpecConst: samples published with the input held at RawBase
MaxConstIndex == 1190
\* SpecBeat: a pulse at BeatFrom and one every BeatLead samples after it,
\* FreeAfter pulses in all; every later pulse comes BeatPeriod samples after
\* the one before it, or GapStep or 2 * GapStep samples earlier; MaxBeats
\* pulses in all, MaxBeatIndex samples
BeatFrom == 580
BeatLead == 50
BeatPeriod == 200
GapStep == 20
FreeAfter == 8
MaxBeats == 11
MaxBeatIndex == 1570
\* SpecSecond: a pulse at BeatFrom and one every BeatPeriod samples after it,
\* MaxSecondIndex samples
MaxSecondIndex == 2210
\* SpecTWave: a pulse of PulseAmp at TPrime, a beat of RAmp * PulseAmp at
\* TBeat, and a third pulse of 1 .. RAmp times PulseAmp that may follow the
\* beat after TGap, TGap + TGapStep or TGap + 2 * TGapStep samples;
\* MaxTIndex samples
TPrime == 600
TBeat == 700
RAmp == 3
TGap == 40
TGapStep == 10
MaxTIndex == 800
\* the input of SpecRest: one pulse, or none, at BeatFrom and rest up to this index
MaxRestIndex == 760
\* SpecWrap: the counter starts at 0 or WrapLead below 2^32 and takes
\* MaxWrapSteps values
\* SpecTrain: a pulse at BeatFrom and one every BeatLead samples after it,
\* MaxTrainIndex samples
MaxTrainIndex == 1460
WrapLead == 600
MaxWrapSteps == 700
\* SpecRR: MaxRRBeats accepted R peaks; the first ones come BeatPeriod samples
\* apart from index WARMUP_SAMPLES on, and once intervals are stored each
\* comes BeatPeriod, SlowPeriod or LongGap samples after the one before it; the
\* rhythm becomes constant before more than MaxFreeStores intervals are stored
MaxRRBeats == 20
MaxFreeStores == 2
\* SpecLcd: calls of increase_brightness and decrease_brightness
MaxDacWrites == 16
SlowPeriod == 250
LongGap == 65537

One == 2 ^ FracBits

Slots == 0 .. (BUFFER_SIZE - 1)

\* ------------------------------------------------------------ arithmetic

\* #define MOD_INDEX(x) ((x + BUFFER_SIZE) % BUFFER_SIZE), for x >= -BUFFER_SIZE
MOD_INDEX(x) == (x + BUFFER_SIZE) % BUFFER_SIZE

\* conversion of a C double n/d to an integer type: truncation toward zero
TruncDiv(n, d) == IF n >= 0 THEN n \div d ELSE -((-n) \div d)

\* a float store of n/d in fixed point: the nearest multiple of 1/One
RoundDiv(n, d) == (n + (d \div 2)) \div d

\* assignment to a uint16_t
U16(n) == n % UINT16_MOD

\* assignment to a uint8_t
U8(n) == n % UINT8_MOD

\* a uint32_t as its two 16-bit halves <<high, low>>: the sample counter
\* where its width matters
Zero32 == <<0, 0>>

\* x + n in uint32_t arithmetic, 0 <= n < 2^16: the carry out of bit 31 is lost
Add32(x, n) ==
  <<(x[1] + ((x[2] + n) \div UINT16_MOD)) % UINT16_MOD, (x[2] + n) % UINT16_MOD>>

\* a - k in uint32_t arithmetic for a, k < 2^16: a negative difference wraps
Sub32(a, k) ==
  IF a >= k THEN <<0, a - k>> ELSE <<UINT16_MOD - 1, UINT16_MOD + a - k>>

\* x % m on a uint32_t, for 0 < m < 2^15
Mod32(x, m) == ((x[1] % m) * (UINT16_MOD % m) + x[2]) % m

\* MOD_INDEX(x) for a uint32_t x on the target (STM32L4, long is 32 bits):
\* x + 500l is computed in unsigned long and wraps at 2^32 before the %
MOD_INDEX_32(x) == Mod32(Add32(x, BUFFER_SIZE), BUFFER_SIZE)

\* the counter about to be passed to process_pan_tompkins; at, slot: the
\* counter of the last call made and its array_index
WrapInit(start) == [index |-> start, at |-> Zero32, slot |-> -1, steps |-> 0]

\* 0.125 * peak + 0.875 * estimate
Mix(peak, estimate) == RoundDiv(peak + 7 * estimate, 8)

\* noisepeak + 0.25 * (signalpeak - noisepeak)
Threshold1(signalpeak, noisepeak) == noisepeak + RoundDiv(signalpeak - noisepeak, 4)

\* 0.5 * threshold
Half(threshold) == RoundDiv(threshold, 2)

\* (uint16_t)(1.16 * x): the double nearest to 1.16 lies below 1.16, and for
\* these x the product rounds to just below the integer 116 * x / 100
Low116 == {25, 50, 100, 200, 375, 400, 425}
Mul092(x) == (92 * x) \div 100
Mul116(x) == IF x \in Low116 THEN ((116 * x) \div 100) - 1 ELSE (116 * x) \div 100
\* rrmiss as the comment of line 194 has it: 1.16 * rravg2
Mul166_AsComment(x) == (116 * x) \div 100

Mul166(x) == (166 * x) \div 100


\* ------------------------------------------------------------ detector
\* signal_processing.c: process_pan_tompkins and the file-scope state it keeps.

ZeroBuffer == [s \in Slots |-> 0]

\* the file-scope scalars of signal_processing.c as the loader leaves them
PtInit ==
  [ sample |-> 0, lastQRS |-> 0, lastSlope |-> 0, currentSlope |-> 0,
    rr1 |-> [n \in 0 .. MAX_RR_AVERAGE_INDEX |-> 0],
    rr2 |-> [n \in 0 .. MAX_RR_AVERAGE_INDEX |-> 0],
    rravg1 |-> 0, rravg2 |-> 0,
    rrlow |-> RRLOW_INIT, rrhigh |-> RRHIGH_INIT, rrmiss |-> 0, max_index |-> 0,
    rr_count |-> 0, last_rr_average_index |-> 0,
    peak_i |-> 0, peak_f |-> 0,
    threshold_i1 |-> 0, threshold_i2 |-> 0, threshold_f1 |-> 0, threshold_f2 |-> 0,
    signalpeak_i |-> 0, signalpeak_f |-> 0, noisepeak_i |-> 0, noisepeak_f |-> 0,
    regular |-> TRUE, prevRegular |-> FALSE ]

\* pt_result_t result; a zero-initialised global of the display
ResultInit ==
  [ peaki |-> 0, signalpeaki |-> 0, noisepeaki |-> 0, thi1 |-> 0,
    is_qrs |-> FALSE, rr_average |-> 0, rr_average2 |-> 0,
    is_regular |-> FALSE, evaluation |-> 0 ]

\* dcblock[array_index] for current_index >= 1: an int16_t store of
\* signal[i] - signal[i-1] + 0.995 * dcblock[i-1]
DcBlock(signal, dc, array_index) ==
  TruncDiv(1000 * (signal[array_index] - signal[MOD_INDEX(array_index - 1)])
             + 995 * dc[MOD_INDEX(array_index - 1)], 1000)

\* the sum the integrator loop accumulates: squared_derivative over the
\* last n slots ending at array_index
RECURSIVE WindowSum(_, _, _)
WindowSum(sd, array_index, n) ==
  IF n = 0 THEN 0
  ELSE sd[MOD_INDEX(array_index - (n - 1))] + WindowSum(sd, array_index, n - 1)

\* currentSlope after the loop over j = current_index - 10 .. current_index
RECURSIVE SlopeScan(_, _, _, _)
SlopeScan(sd, j, last, acc) ==
  IF j > last THEN acc
  ELSE SlopeScan(sd, j + 1, last, IF sd[MOD_INDEX(j)] > acc THEN sd[MOD_INDEX(j)] ELSE acc)

MaxSlope(sd, current_index) == SlopeScan(sd, current_index - SLOPE_WINDOW, current_index, 0)

\* the gate tested on sample (current_index + 1) instead of current_index
InWarmUp_BySample(current_index) == current_index + 1 < WARMUP_SAMPLES

\* if (current_index < 600) return;
InWarmUp(current_index) == current_index < WARMUP_SAMPLES

\* the 200 ms latency left out of the comparison
Past200ms_NoDelay(sample, lastQRS) == sample > lastQRS

\* sample > lastQRS + DELAY_200ms_IN_SAMPLES
Past200ms(sample, lastQRS) == sample > lastQRS + DELAY_200ms_IN_SAMPLES

\* sample <= lastQRS + DELAY_360ms_IN_SAMPLES
Within360ms(sample, lastQRS) == sample <= lastQRS + DELAY_360ms_IN_SAMPLES

\* the slope test with < for <=
SlopeTooSmall_Strict(currentSlope, lastSlope) == 2 * currentSlope < lastSlope

\* currentSlope <= lastSlope / 2l
SlopeTooSmall(currentSlope, lastSlope) == 2 * currentSlope <= lastSlope

\* integral_value >= threshold_i1 || highpass_value >= threshold_f1
AboveOne(p, integral_value, highpass_value) ==
  integral_value >= p.threshold_i1 \/ highpass_value >= p.threshold_f1

\* the signal test made against the half thresholds of the back search
AboveBoth_Half(p, integral_value, highpass_value) ==
  integral_value >= p.threshold_i2 /\ highpass_value >= p.threshold_f2

\* integral_value >= threshold_i1 && highpass_value >= threshold_f1
AboveBoth(p, integral_value, highpass_value) ==
  integral_value >= p.threshold_i1 /\ highpass_value >= p.threshold_f1

\* an accepted R peak that mixes the peak into the signal estimates twice
SignalUpdate_Twice(p, slope) ==
  LET spi == Mix(p.peak_i, Mix(p.peak_i, p.signalpeak_i))
      spf == Mix(p.peak_f, Mix(p.peak_f, p.signalpeak_f))
      ti1 == Threshold1(spi, p.noisepeak_i)
      tf1 == Threshold1(spf, p.noisepeak_f)
  IN [p EXCEPT !.signalpeak_i = spi, !.threshold_i1 = ti1, !.threshold_i2 = Half(ti1),
               !.signalpeak_f = spf, !.threshold_f1 = tf1, !.threshold_f2 = Half(tf1),
               !.lastSlope = slope]

\* an accepted R peak: signal estimates, thresholds and lastSlope
SignalUpdate(p, slope) ==
  LET spi == Mix(p.peak_i, p.signalpeak_i)
      spf == Mix(p.peak_f, p.signalpeak_f)
      ti1 == Threshold1(spi, p.noisepeak_i)
      tf1 == Threshold1(spf, p.noisepeak_f)
  IN [p EXCEPT !.signalpeak_i = spi, !.threshold_i1 = ti1, !.threshold_i2 = Half(ti1),
               !.signalpeak_f = spf, !.threshold_f1 = tf1, !.threshold_f2 = Half(tf1),
               !.lastSlope = slope]

\* a peak taken as noise: noise estimates and thresholds
NoiseUpdate(p, integral_value, highpass_value) ==
  LET npi == Mix(integral_value, p.noisepeak_i)
      npf == Mix(highpass_value, p.noisepeak_f)
      ti1 == Threshold1(p.signalpeak_i, npi)
      tf1 == Threshold1(p.signalpeak_f, npf)
  IN [p EXCEPT !.peak_i = integral_value, !.noisepeak_i = npi,
               !.threshold_i1 = ti1, !.threshold_i2 = Half(ti1),
               !.peak_f = highpass_value, !.noisepeak_f = npf,
               !.threshold_f1 = tf1, !.threshold_f2 = Half(tf1)]

\* the trailing blocks left out: a peak that is no QRS updates nothing
NoiseIfAboveOne_Never(p, integral_value, highpass_value) == p

\* the two trailing blocks "if (!result->is_qrs) if (above one threshold)"
NoiseIfAboveOne(p, integral_value, highpass_value) ==
  IF AboveOne(p, integral_value, highpass_value)
  THEN NoiseUpdate(p, integral_value, highpass_value)
  ELSE p

\* the decision on one sample past the warm-up: the peak candidate, the two
\* latencies and the slope; qrs is result->is_qrs
Qualify(p0, sd, current_index, integral_value, highpass_value) ==
  LET p1 == IF AboveOne(p0, integral_value, highpass_value)
            THEN [p0 EXCEPT !.peak_i = integral_value, !.peak_f = highpass_value]
            ELSE p0
      slope == MaxSlope(sd, current_index)
      p2 == [p1 EXCEPT !.currentSlope = slope]
  IN IF AboveBoth(p0, integral_value, highpass_value)
     THEN IF Past200ms(p0.sample, p0.lastQRS)
          THEN IF Within360ms(p0.sample, p0.lastQRS)
               THEN IF SlopeTooSmall(slope, p0.lastSlope)
                    THEN [pt |-> p2, qrs |-> FALSE]
                    ELSE [pt |-> SignalUpdate(p2, slope), qrs |-> TRUE]
               ELSE [pt |-> SignalUpdate(p2, slope), qrs |-> TRUE]
          ELSE [pt |-> NoiseUpdate(p1, integral_value, highpass_value), qrs |-> FALSE]
     ELSE [pt |-> p1, qrs |-> FALSE]

\* rr[i] = rr[i + 1] for i < MAX_RR_AVERAGE_INDEX, then rr[7] = interval
ShiftIn(rr, interval) ==
  [n \in 0 .. MAX_RR_AVERAGE_INDEX |->
     IF n < MAX_RR_AVERAGE_INDEX THEN rr[n + 1] ELSE interval]

\* the uint16_t accumulation rravg += rr[i] over the eight slots
RECURSIVE SumU16(_, _)
SumU16(rr, n) == IF n < 0 THEN 0 ELSE U16(SumU16(rr, n - 1) + rr[n])

\* if (rr_count > RR_INTERVALS_TO_SKIP)
PastSkip(rr_count) == rr_count > RR_INTERVALS_TO_SKIP

\* the regularity test without its lower bound
Regular_OneSided(rravg1, rravg2) == rravg1 <= rravg2 + 2

\* result->evaluation with the two values exchanged
Evaluation_Swapped(regular) == IF regular THEN 2 ELSE 1

\* result->evaluation = regular ? 1 : 2
Evaluation(regular) == IF regular THEN 1 ELSE 2

\* rravg1 <= rravg2 + 2 && rravg1 >= rravg2 - 2
Regular(rravg1, rravg2) == rravg1 <= rravg2 + 2 /\ rravg1 >= rravg2 - 2

\* the thresholds halved on every irregular beat, prevRegular not tested
Halve_Whenever(prevRegular, regular) == ~regular

\* else { regular = false; if (prevRegular) { threshold_i1 *= 0.5; ... } }
Halve(prevRegular, regular) == ~regular /\ prevRegular

\* the counter of stored intervals with a ceiling of 8
NextCount_Ceiling8(index) ==
  IF index <= MAX_RR_AVERAGE_INDEX THEN index + 1 ELSE index

\* if (last_rr_average_index < MAX_RR_AVERAGE_INDEX) last_rr_average_index++
NextCount(index) ==
  IF index < MAX_RR_AVERAGE_INDEX THEN index + 1 ELSE index

\* the test for a normal interval with both ends left out
Normal_Exclusive(interval, rrlow, rrhigh) == interval > rrlow /\ interval < rrhigh

\* rr1[MAX_RR_AVERAGE_INDEX] >= rrlow && rr1[MAX_RR_AVERAGE_INDEX] <= rrhigh
Normal(interval, rrlow, rrhigh) == interval >= rrlow /\ interval <= rrhigh

\* the RR averages on an accepted R peak, once the first intervals are skipped
RRUpdate(p, res) ==
  LET max_index == p.last_rr_average_index
      rr1 == ShiftIn(p.rr1, U16(p.sample - p.lastQRS))
      rravg1 == SumU16(rr1, MAX_RR_AVERAGE_INDEX) \div (max_index + 1)
      normal == Normal(rr1[MAX_RR_AVERAGE_INDEX], p.rrlow, p.rrhigh)
      rr2 == IF normal THEN ShiftIn(p.rr2, rr1[MAX_RR_AVERAGE_INDEX]) ELSE p.rr2
      rravg2 == IF normal THEN SumU16(rr2, MAX_RR_AVERAGE_INDEX) \div (max_index + 1)
                ELSE p.rravg2
      regular == Regular(rravg1, rravg2)
      halve == Halve(p.regular, regular)
      q == [p EXCEPT !.max_index = max_index, !.rr1 = rr1, !.rravg1 = rravg1,
                     !.rr2 = rr2, !.rravg2 = rravg2,
                     !.rrlow = IF normal THEN U16(Mul092(rravg2)) ELSE p.rrlow,
                     !.rrhigh = IF normal THEN U16(Mul116(rravg2)) ELSE p.rrhigh,
                     !.rrmiss = IF normal THEN U16(Mul166(rravg2)) ELSE p.rrmiss,
                     !.prevRegular = p.regular, !.regular = regular,
                     !.threshold_i1 = IF halve THEN Half(p.threshold_i1) ELSE p.threshold_i1,
                     !.threshold_f1 = IF halve THEN Half(p.threshold_f1) ELSE p.threshold_f1,
                     !.last_rr_average_index = NextCount(max_index)]
  IN [pt |-> q,
      result |-> [res EXCEPT !.rr_average = rravg1, !.rr_average2 = rravg2,
                             !.is_regular = regular,
                             !.evaluation = Evaluation(regular)]]

\* the accepted-QRS branch without its last statement "lastQRS = sample"
OnQrs_Forget(p, res) ==
  LET u == IF PastSkip(p.rr_count)
           THEN RRUpdate(p, res)
           ELSE [pt |-> [p EXCEPT !.rr_count = p.rr_count + 1], result |-> res]
  IN [pt |-> u.pt, result |-> u.result]

\* if (result->is_qrs) { ... lastQRS = sample; }
OnQrs(p, res) ==
  LET u == IF PastSkip(p.rr_count)
           THEN RRUpdate(p, res)
           ELSE [pt |-> [p EXCEPT !.rr_count = p.rr_count + 1], result |-> res]
  IN [pt |-> [u.pt EXCEPT !.lastQRS = p.sample], result |-> u.result]

\* the four assignments at the end with result->thi1 left out
WriteResult_NoThreshold(res, p) ==
  [res EXCEPT !.peaki = p.peak_i, !.signalpeaki = p.signalpeak_i,
              !.noisepeaki = p.noisepeak_i]

\* result->peaki = peak_i; ... result->thi1 = threshold_i1;
WriteResult(res, p) ==
  [res EXCEPT !.peaki = p.peak_i, !.signalpeaki = p.signalpeak_i,
              !.noisepeaki = p.noisepeak_i, !.thi1 = p.threshold_i1]

\* the decision with "lastQRS = sample" placed after the if, so that it
\* runs on every call
Decide_TrackAlways(p0, res0, sd, current_index, integral_value, highpass_value) ==
  LET d == Qualify(p0, sd, current_index, integral_value, highpass_value)
      res1 == [res0 EXCEPT !.is_qrs = d.qrs]
      u == IF d.qrs
           THEN OnQrs(d.pt, res1)
           ELSE [pt |-> [NoiseIfAboveOne(
                           NoiseIfAboveOne(d.pt, integral_value, highpass_value),
                           integral_value, highpass_value) EXCEPT !.lastQRS = p0.sample],
                 result |-> res1]
  IN [pt |-> u.pt, result |-> WriteResult(u.result, u.pt)]

\* everything after the warm-up gate; the back search is compiled out
\* (if (false && ...)), so a sample that is no QRS only meets the two
\* trailing noise blocks
Decide(p0, res0, sd, current_index, integral_value, highpass_value) ==
  LET d == Qualify(p0, sd, current_index, integral_value, highpass_value)
      res1 == [res0 EXCEPT !.is_qrs = d.qrs]
      u == IF d.qrs
           THEN OnQrs(d.pt, res1)
           ELSE [pt |-> NoiseIfAboveOne(
                          NoiseIfAboveOne(d.pt, integral_value, highpass_value),
                          integral_value, highpass_value),
                 result |-> res1]
  IN [pt |-> u.pt, result |-> WriteResult(u.result, u.pt)]

\* lowpass[array_index], from the new dcblock and the old lowpass
LowPass(dc, lp, array_index) ==
  dc[array_index] + 2 * lp[MOD_INDEX(array_index - 1)] - lp[MOD_INDEX(array_index - 2)]
    - 2 * dc[MOD_INDEX(array_index - 6)] + dc[MOD_INDEX(array_index - 12)]

\* highpass[array_index], from the new lowpass and the old highpass
HighPass(lp, hp, array_index) ==
  (-lp[array_index]) - hp[MOD_INDEX(array_index - 1)]
    + 32 * lp[MOD_INDEX(array_index - 16)] + lp[MOD_INDEX(array_index - 32)]

\* integral[array_index]: the window sum divided by WINDOW_SIZE, a float
Integral(sd, array_index) ==
  LET sum == WindowSum(sd, array_index, WINDOW_SIZE)
  IN One * (sum \div WINDOW_SIZE) + RoundDiv(One * (sum % WINDOW_SIZE), WINDOW_SIZE)

\* process_pan_tompkins from "result->is_qrs = false" to its end: p is the
\* scalars with sample set, res the result record on entry, sd the
\* squared_derivative buffer after the filter chain
Detect(p, res, sd, current_index, integral_value, highpass_value) ==
  IF InWarmUp(current_index)
  THEN [pt |-> p, result |-> [res EXCEPT !.is_qrs = FALSE]]
  ELSE Decide(p, [res EXCEPT !.is_qrs = FALSE], sd, current_index,
              integral_value, highpass_value)

\* ------------------------------------------------------------ state

VARIABLES
  raw_values, time_buffer, filtered,       \* the ring buffers of the display
  fill_index, current_index,               \* written by the ISR / by the main loop
  result,                                  \* pt_result_t result
  active, enabled, paused, initialized,    \* the flags of the display
  mode, menu_selected,                     \* T_Mode mode; menu.selected
  tim16_on, tim7_on,                       \* the two timer interrupts are armed
  main_pc,                                 \* the main loop: outside display_graph or in its while loop
  dcblock, lowpass, highpass, derivative, squared_derivative, integral,
  pt,                                      \* the scalars of signal_processing.c
  adc_log,                                 \* history: the ADC value the ISR stored for each index
  pulses,                                  \* history: input pulses delivered so far
  hist,                                    \* history of the calls of process_pan_tompkins
  wrap,                                    \* the sample counter at its full 32-bit width, and
                                           \* the ring slot MOD_INDEX gave for its last value
  lcd_brightness                           \* uint8_t lcd_brightness

buffers == <<dcblock, lowpass, highpass, derivative, squared_derivative, integral>>
detector == <<buffers, pt, filtered, result>>
ui == <<paused, initialized, mode, menu_selected>>
vars == <<raw_values, time_buffer, fill_index, current_index, active, enabled, ui,
          tim16_on, tim7_on, main_pc, detector, adc_log, pulses, hist, wrap,
          lcd_brightness>>

\* HAL_GetTick() in the TIM16 callback: milliseconds, one period per sample
TICK_MS == 1000 \div SAMPLING_FREQUENCY

HistInit ==
  [ calls |-> 0, skipped |-> 0,            \* loop iterations with / without a call
    last_call |-> -1, prev_call |-> -1,    \* index of the last call, and of the one before
    read_cur |-> -1, read_prev |-> -1,     \* signal[i], signal[i-1] as the last call read them
    overrun |-> FALSE,                     \* fill_index - current_index reached BUFFER_SIZE
    above_both |-> FALSE,                  \* the last call was past the warm-up and its sample
                                           \* at or above both thresholds as they were on entry
    qrs_count |-> 0,                       \* calls that returned is_qrs = true
    qrs_last |-> -1, qrs_prev |-> -1,      \* index of the last accepted QRS, and of the one before
    slope_last |-> 0, slope_prev |-> 0,    \* lastSlope as stored at qrs_last / at qrs_prev
    slope_seen |-> 0,                      \* max of squared_derivative over qrs_last-10 .. qrs_last
    blocked |-> 0, blocked_before |-> 0,   \* calls above both thresholds at most 40 samples after
                                           \* qrs_last / between qrs_prev and qrs_last
    rr_first |-> 0,                        \* qrs_count when rr_average first became non-zero
    last_pulse |-> -1,                     \* index of the last input pulse
    every_second |-> TRUE,                 \* the accepted QRS events so far are one second apart
    updates |-> 0,                         \* accepted QRS events that updated the RR averages
    rr1_n |-> 0, rr2_n |-> 0,              \* intervals stored in rr1 / rr2 and still held there
    twave |-> -1,                          \* index of the last call turned down by the slope test
    below |-> 0,                           \* calls past the warm-up since the sample was last at or
                                           \* above one of the thresholds as they were on entry
    sat_i |-> 0, sat_f |-> 0,              \* threshold_i1, threshold_f1 on entry to the first of them
    steady |-> 0,                          \* SpecRR: the interval every later R peak comes after, 0 if free
    dac_writes |-> 0 ]                     \* values written to the DAC channel of the backlight

Boot ==
  /\ raw_values = ZeroBuffer /\ time_buffer = ZeroBuffer /\ filtered = ZeroBuffer
  /\ fill_index = 0 /\ current_index = 0
  /\ result = ResultInit
  /\ active = FALSE /\ enabled = TRUE /\ paused = FALSE /\ initialized = TRUE
  /\ mode = "MEASURE" /\ menu_selected = 0
  /\ tim16_on = TRUE /\ tim7_on = TRUE
  /\ main_pc = "idle"
  /\ dcblock = ZeroBuffer /\ lowpass = ZeroBuffer /\ highpass = ZeroBuffer
  /\ derivative = ZeroBuffer /\ squared_derivative = ZeroBuffer /\ integral = ZeroBuffer
  /\ pt = PtInit
  /\ adc_log = << >>
  /\ pulses = 0
  /\ hist = HistInit
  /\ lcd_brightness = LCD_BRIGHTNESS_INIT

Init == Boot /\ wrap = WrapInit(Zero32)

\* ------------------------------------------------------------ interrupts

\* fill_index incremented before the store instead of after it
StoreSlot_AfterIncrement(fill) == MOD_INDEX(fill + 1)

\* the slot the TIM16 branch stores the sample in
StoreSlot(fill) == MOD_INDEX(fill)

\* a TIM16 branch that also traces the raw sample into the filtered buffer
TIM16_AlsoFiltered(adc) ==
  /\ tim16_on
  /\ IF enabled
     THEN /\ raw_values' = [raw_values EXCEPT ![StoreSlot(fill_index)] = adc]
          /\ time_buffer' = [time_buffer EXCEPT ![StoreSlot(fill_index)] = TICK_MS * fill_index]
          /\ filtered' = [filtered EXCEPT ![StoreSlot(fill_index)] = adc]
          /\ fill_index' = fill_index + 1
          /\ adc_log' = Append(adc_log, adc)
          /\ pulses' = IF adc = RawBase THEN pulses ELSE pulses + 1
          /\ hist' = [hist EXCEPT !.overrun =
                        hist.overrun \/ (fill_index + 1) - current_index >= BUFFER_SIZE,
                                  !.last_pulse =
                        IF adc = RawBase THEN hist.last_pulse ELSE fill_index]
          /\ UNCHANGED <<tim16_on, wrap, lcd_brightness>>
     ELSE /\ tim16_on' = FALSE
          /\ UNCHANGED <<raw_values, time_buffer, filtered, fill_index, adc_log, pulses, hist, wrap,
                 lcd_brightness>>
  /\ UNCHANGED <<current_index, active, enabled, ui, tim7_on, main_pc, buffers, pt, result>>

\* HAL_TIM_PeriodElapsedCallback, htim->Instance == TIM16; adc is dma_values[0]
TIM16_PeriodElapsed(adc) ==
  /\ tim16_on
  /\ IF enabled
     THEN /\ raw_values' = [raw_values EXCEPT ![StoreSlot(fill_index)] = adc]
          /\ time_buffer' = [time_buffer EXCEPT ![StoreSlot(fill_index)] = TICK_MS * fill_index]
          /\ fill_index' = fill_index + 1
          /\ adc_log' = Append(adc_log, adc)
          /\ pulses' = IF adc = RawBase THEN pulses ELSE pulses + 1
          /\ hist' = [hist EXCEPT !.overrun =
                        hist.overrun \/ (fill_index + 1) - current_index >= BUFFER_SIZE,
                                  !.last_pulse =
                        IF adc = RawBase THEN hist.last_pulse ELSE fill_index]
          /\ UNCHANGED <<tim16_on, wrap, lcd_brightness>>
     ELSE /\ tim16_on' = FALSE
          /\ UNCHANGED <<raw_values, time_buffer, fill_index, adc_log, pulses, hist, wrap,
                 lcd_brightness>>
  /\ UNCHANGED <<current_index, active, enabled, ui, tim7_on, main_pc, detector>>

\* void display_shutdown()
display_shutdown ==
  /\ enabled' = FALSE
  /\ UNCHANGED <<raw_values, time_buffer, fill_index, current_index, active, ui,
                 tim16_on, main_pc, detector, adc_log, pulses, hist, wrap,
                 lcd_brightness>>

\* HAL_TIM_PeriodElapsedCallback, htim->Instance == TIM7
TIM7_PeriodElapsed ==
  /\ tim7_on
  /\ tim7_on' = FALSE
  /\ display_shutdown

\* ------------------------------------------------------------ main loop

\* the largest of squared_derivative over the slots of b-10 .. b
MaxOver(sd, b) ==
  LET vals == {sd[MOD_INDEX(j)] : j \in (b - SLOPE_WINDOW) .. b}
  IN CHOOSE m \in vals : \A v \in vals : v <= m

\* the history after the call at index i: signal is the raw buffer it read,
\* old the scalars on entry, r, p, sd, iv, hv the result, the scalars, the
\* squared_derivative buffer and the integrator and filtered values it left
HistCall(h, i, signal, old, r, p, sd, iv, hv) ==
  LET both == i >= WARMUP_SAMPLES /\ iv >= old.threshold_i1 /\ hv >= old.threshold_f1
      early == h.qrs_count >= 1 /\ i - h.qrs_last <= DELAY_200ms_IN_SAMPLES
      h1 == [h EXCEPT !.calls = h.calls + 1,
                      !.prev_call = h.last_call, !.last_call = i,
                      !.read_cur = signal[MOD_INDEX(i)],
                      !.read_prev = signal[MOD_INDEX(MOD_INDEX(i) - 1)],
                      !.above_both = both,
                      !.blocked = IF both /\ early /\ ~r.is_qrs THEN h.blocked + 1
                                  ELSE h.blocked]
      h2 == IF r.is_qrs
            THEN [h1 EXCEPT !.qrs_count = h.qrs_count + 1,
                            !.qrs_prev = h.qrs_last, !.qrs_last = i,
                            !.slope_prev = h.slope_last, !.slope_last = p.lastSlope,
                            !.slope_seen = MaxOver(sd, i),
                            !.blocked = 0, !.blocked_before = h.blocked]
            ELSE h1
      updated == r.is_qrs /\ p.rr_count = old.rr_count
      interval == p.rr1[MAX_RR_AVERAGE_INDEX]
      stored2 == updated /\ interval >= old.rrlow /\ interval <= old.rrhigh
      Held(n) == IF n <= MAX_RR_AVERAGE_INDEX THEN n + 1 ELSE n
      under == i >= WARMUP_SAMPLES /\ iv < old.threshold_i1 /\ hv < old.threshold_f1
      h3 == [h2 EXCEPT !.below = IF under THEN h.below + 1 ELSE 0,
                       !.sat_i = IF under /\ h.below = 0 THEN old.threshold_i1 ELSE h.sat_i,
                       !.sat_f = IF under /\ h.below = 0 THEN old.threshold_f1 ELSE h.sat_f,
                       !.every_second =
                          h.every_second /\
                            (r.is_qrs /\ h.qrs_count >= 1 => i - h.qrs_last = SAMPLING_FREQUENCY),
                       !.updates = IF updated THEN h.updates + 1 ELSE h.updates,
                       !.rr1_n = IF updated THEN Held(h.rr1_n) ELSE h.rr1_n,
                       !.rr2_n = IF stored2 THEN Held(h.rr2_n) ELSE h.rr2_n,
                       !.twave = IF /\ both /\ ~r.is_qrs
                                    /\ i + 1 > old.lastQRS + DELAY_200ms_IN_SAMPLES
                                    /\ i + 1 <= old.lastQRS + DELAY_360ms_IN_SAMPLES
                                    /\ 2 * MaxOver(sd, i) <= old.lastSlope
                                 THEN i ELSE h.twave]
  IN IF h.rr_first = 0 /\ r.rr_average # 0
     THEN [h3 EXCEPT !.rr_first = h3.qrs_count]
     ELSE h3

\* display_graph(): if (enabled) { while ...
display_graph_enter ==
  /\ main_pc = "idle"
  /\ main_pc' = IF enabled THEN "loop" ELSE "idle"
  /\ UNCHANGED <<raw_values, time_buffer, fill_index, current_index, active, enabled, ui,
                 tim16_on, tim7_on, detector, adc_log, pulses, hist, wrap,
                 lcd_brightness>>

\* uint32_t array_index = MOD_INDEX(current_index)
array_index == MOD_INDEX(current_index)

\* the call in the loop body:
\* process_pan_tompkins(raw_values, filtered, current_index, &result)
ProcessCall ==
  /\ dcblock' = [dcblock EXCEPT ![array_index] =
                   IF current_index >= 1 THEN DcBlock(raw_values, dcblock, array_index) ELSE 0]
  /\ lowpass' = [lowpass EXCEPT ![array_index] = LowPass(dcblock', lowpass, array_index)]
  /\ highpass' = [highpass EXCEPT ![array_index] = HighPass(lowpass', highpass, array_index)]
  /\ filtered' = [filtered EXCEPT ![array_index] = highpass'[array_index]]
  /\ derivative' = [derivative EXCEPT ![array_index] =
                      highpass'[array_index] - highpass'[MOD_INDEX(array_index - 1)]]
  /\ squared_derivative' = [squared_derivative EXCEPT ![array_index] =
                              derivative'[array_index] * derivative'[array_index]]
  /\ integral' = [integral EXCEPT ![array_index] = Integral(squared_derivative', array_index)]
  /\ \E d \in {Detect([pt EXCEPT !.sample = current_index + 1], result,
                      squared_derivative', current_index,
                      integral'[array_index], One * highpass'[array_index])} :
        pt' = d.pt /\ result' = d.result
  /\ hist' = HistCall(hist, current_index, raw_values, pt, result', pt',
                      squared_derivative', integral'[array_index],
                      One * highpass'[array_index])

\* the loop condition with the index the ISR writes next let through
Pending_Inclusive(fill, index) == fill >= index

\* while (fill_index > current_index)
Pending(fill, index) == fill > index

\* the loop body with the pause flag ignored
Processing_Always(pause) == TRUE

\* if (!paused) { ... process_pan_tompkins(...); ... }
Processing(pause) == ~pause

\* the loop body without its increment
NextIndex_Stay(index) == index

\* current_index++ at the end of the loop body
NextIndex(index) == index + 1

\* one iteration of while (fill_index > current_index)
display_graph_iter ==
  /\ main_pc = "loop"
  /\ Pending(fill_index, current_index)
  /\ active' = TRUE
  /\ IF Processing(paused)
     THEN ProcessCall
     ELSE /\ hist' = [hist EXCEPT !.skipped = hist.skipped + 1]
          /\ UNCHANGED detector
  /\ current_index' = NextIndex(current_index)
  /\ UNCHANGED <<raw_values, time_buffer, fill_index, enabled, ui,
                 tim16_on, tim7_on, main_pc, adc_log, pulses, wrap,
                 lcd_brightness>>

\* the loop ends: if (mode == MENU) draw_menu(); and display_graph returns
display_graph_exit ==
  /\ main_pc = "loop"
  /\ ~Pending(fill_index, current_index)
  /\ main_pc' = "idle"
  /\ UNCHANGED <<raw_values, time_buffer, fill_index, current_index, active, enabled, ui,
                 tim16_on, tim7_on, detector, adc_log, pulses, hist, wrap,
                 lcd_brightness>>

\* ------------------------------------------------------------ controls

\* void display_handle_button_press()
display_handle_button_press ==
  /\ initialized
  /\ IF mode = "MEASURE"
     THEN mode' = "MENU" /\ UNCHANGED paused
     ELSE IF menu_selected = MENU_ITEM_PAUSE
          THEN paused' = ~paused /\ UNCHANGED mode
          ELSE mode' = "MEASURE" /\ UNCHANGED paused
  /\ UNCHANGED <<raw_values, time_buffer, fill_index, current_index, active, enabled,
                 initialized, menu_selected, tim16_on, tim7_on, main_pc, detector,
                 adc_log, pulses, hist, wrap,
                 lcd_brightness>>

\* void button_turned_right()
button_turned_right ==
  /\ mode = "MENU"
  /\ menu_selected' = IF menu_selected + 1 >= MENU_SIZE THEN MENU_SIZE - 1
                      ELSE menu_selected + 1
  /\ UNCHANGED <<raw_values, time_buffer, fill_index, current_index, active, enabled,
                 paused, initialized, mode, tim16_on, tim7_on, main_pc, detector,
                 adc_log, pulses, hist, wrap,
                 lcd_brightness>>

\* void button_turned_left()
button_turned_left ==
  /\ mode = "MENU"
  /\ menu_selected' = IF menu_selected > 0 THEN menu_selected - 1 ELSE 0
  /\ UNCHANGED <<raw_values, time_buffer, fill_index, current_index, active, enabled,
                 paused, initialized, mode, tim16_on, tim7_on, main_pc, detector,
                 adc_log, pulses, hist, wrap,
                 lcd_brightness>>

\* lcd_brightness += BRIGHTNESS_STEP; if (lcd_brightness > MAX_BRIGHTNESS) ...
Brighter(brightness) ==
  LET sum == U8(brightness + BRIGHTNESS_STEP)
  IN IF sum > MAX_BRIGHTNESS THEN MAX_BRIGHTNESS ELSE sum

\* lcd_brightness -= BRIGHTNESS_STEP; if (lcd_brightness < MIN_BRIGHTNESS) ...
Darker(brightness) ==
  LET difference == U8(brightness - BRIGHTNESS_STEP)
  IN IF difference < MIN_BRIGHTNESS THEN MIN_BRIGHTNESS ELSE difference

\* void increase_brightness()
increase_brightness ==
  /\ hist.dac_writes < MaxDacWrites
  /\ lcd_brightness' = Brighter(lcd_brightness)
  /\ hist' = [hist EXCEPT !.dac_writes = hist.dac_writes + 1]
  /\ UNCHANGED <<raw_values, time_buffer, fill_index, current_index, active, enabled, ui,
                 tim16_on, tim7_on, main_pc, detector, adc_log, pulses, wrap>>

\* void decrease_brightness()
decrease_brightness ==
  /\ hist.dac_writes < MaxDacWrites
  /\ lcd_brightness' = Darker(lcd_brightness)
  /\ hist' = [hist EXCEPT !.dac_writes = hist.dac_writes + 1]
  /\ UNCHANGED <<raw_values, time_buffer, fill_index, current_index, active, enabled, ui,
                 tim16_on, tim7_on, main_pc, detector, adc_log, pulses, wrap>>

\* ------------------------------------------------------------ specifications

\* the input of Spec: at rest or one pulse high
RawSet == {RawBase, RawBase + PulseAmp}

\* the monitor under every interleaving, for the first MaxFill samples
Tick == \E adc \in RawSet : fill_index < MaxFill /\ TIM16_PeriodElapsed(adc)

Next ==
  \/ Tick
  \/ TIM7_PeriodElapsed
  \/ display_graph_enter
  \/ display_graph_iter
  \/ display_graph_exit
  \/ display_handle_button_press
  \/ button_turned_right
  \/ button_turned_left

Spec == Init /\ [][Next]_vars

\* the detector fed in step with the sampling: the main loop has consumed
\* every sample before the next one arrives, and the input is at rest but
\* for pulses
PulseDue ==
  /\ fill_index >= PulseFrom
  /\ (fill_index - PulseFrom) % PulseStep = 0
  /\ pulses < MaxPulses

InStep == main_pc = "loop" /\ fill_index = current_index

DetTick ==
  \E adc \in (IF PulseDue THEN RawSet ELSE {RawBase}) :
     InStep /\ fill_index < MaxIndex /\ TIM16_PeriodElapsed(adc)

NextDet ==
  \/ DetTick
  \/ display_graph_enter
  \/ display_graph_iter

SpecDet == Init /\ [][NextDet]_vars

\* the detector fed in step with the sampling, the input held at rest
ConstTick == InStep /\ fill_index < MaxConstIndex /\ TIM16_PeriodElapsed(RawBase)

NextConst ==
  \/ ConstTick
  \/ display_graph_enter
  \/ display_graph_iter

SpecConst == Init /\ [][NextConst]_vars

\* the detector fed in step with the sampling, the input a train of pulses:
\* the values the ADC may deliver at this tick
BeatInput ==
  LET gap == fill_index - hist.last_pulse
      pulse == {RawBase + PulseAmp}
      rest == {RawBase}
  IN IF pulses >= MaxBeats THEN rest
     ELSE IF pulses = 0 THEN (IF fill_index = BeatFrom THEN pulse ELSE rest)
     ELSE IF pulses < FreeAfter THEN (IF gap = BeatLead THEN pulse ELSE rest)
     ELSE IF gap = BeatPeriod THEN pulse
     ELSE IF gap \in {BeatPeriod - GapStep, BeatPeriod - 2 * GapStep} THEN RawSet
     ELSE rest

BeatTick ==
  \E adc \in BeatInput :
     InStep /\ fill_index < MaxBeatIndex /\ TIM16_PeriodElapsed(adc)

NextBeat ==
  \/ BeatTick
  \/ display_graph_enter
  \/ display_graph_iter

SpecBeat == Init /\ [][NextBeat]_vars

\* the detector fed in step with the sampling, the input one pulse every
\* BeatPeriod samples
SecondTick ==
  \E adc \in (IF fill_index >= BeatFrom /\ (fill_index - BeatFrom) % BeatPeriod = 0
              THEN {RawBase + PulseAmp} ELSE {RawBase}) :
     InStep /\ fill_index < MaxSecondIndex /\ TIM16_PeriodElapsed(adc)

NextSecond ==
  \/ SecondTick
  \/ display_graph_enter
  \/ display_graph_iter

SpecSecond == Init /\ [][NextSecond]_vars

\* the detector fed in step with the sampling, the input a beat that a
\* weaker or equal pulse may follow: the values the ADC may deliver
TWaveInput ==
  IF fill_index = TPrime THEN {RawBase + PulseAmp}
  ELSE IF fill_index = TBeat THEN {RawBase + RAmp * PulseAmp}
  ELSE IF pulses = 2 /\ fill_index \in {TBeat + TGap + k * TGapStep : k \in 0 .. 2}
       THEN {RawBase + k * PulseAmp : k \in 0 .. RAmp}
       ELSE {RawBase}

TWaveTick ==
  \E adc \in TWaveInput :
     InStep /\ fill_index < MaxTIndex /\ TIM16_PeriodElapsed(adc)

NextTWave ==
  \/ TWaveTick
  \/ display_graph_enter
  \/ display_graph_iter

SpecTWave == Init /\ [][NextTWave]_vars

\* the detector fed in step with the sampling, the input at rest after at
\* most one pulse; the timer keeps ticking and the main loop keeps running
RestTick ==
  \E adc \in (IF fill_index = BeatFrom THEN RawSet ELSE {RawBase}) :
     InStep /\ fill_index < MaxRestIndex /\ TIM16_PeriodElapsed(adc)

NextRest ==
  \/ RestTick
  \/ display_graph_enter
  \/ display_graph_iter

\* the steps of NextRest told by the one variable each of them advances:
\* the timer stores a sample, main calls display_graph, the loop body runs
RestTickRuns == InStep /\ fill_index < MaxRestIndex /\ fill_index' = fill_index + 1
EnterRuns == main_pc = "idle" /\ enabled /\ main_pc' = "loop"
IterRuns == main_pc = "loop" /\ Pending(fill_index, current_index)
              /\ current_index' = NextIndex(current_index)

\* display_graph returns: the loop has caught up with the ISR
ExitRuns == main_pc = "loop" /\ ~Pending(fill_index, current_index) /\ main_pc' = "idle"

\* the monitor under every interleaving, the main loop kept running: main
\* calls display_graph again and again, and the loop body, once entered, runs
SpecFair ==
  /\ Init /\ [][Next]_vars
  /\ WF_main_pc(EnterRuns) /\ WF_current_index(IterRuns) /\ WF_main_pc(ExitRuns)

\* the timer interrupt keeps coming and the main loop keeps running
SpecRest ==
  /\ Init /\ [][NextRest]_vars
  /\ WF_fill_index(RestTickRuns) /\ WF_main_pc(EnterRuns) /\ WF_current_index(IterRuns)

\* the detector fed in step with the sampling, the input a fast train of
\* pulses BeatLead samples apart
TrainTick ==
  \E adc \in (IF fill_index >= BeatFrom /\ (fill_index - BeatFrom) % BeatLead = 0
              THEN {RawBase + PulseAmp} ELSE {RawBase}) :
     InStep /\ fill_index < MaxTrainIndex /\ TIM16_PeriodElapsed(adc)

NextTrain ==
  \/ TrainTick
  \/ display_graph_enter
  \/ display_graph_iter

SpecTrain == Init /\ [][NextTrain]_vars

\* the ring slot of every value of the sample counter, near 0 and across
\* the end of its range: uint32_t array_index = MOD_INDEX(current_index),
\* and current_index++ in the caller
WrapStep ==
  /\ wrap.steps < MaxWrapSteps
  /\ wrap' = [index |-> Add32(wrap.index, 1), at |-> wrap.index,
              slot |-> MOD_INDEX_32(wrap.index), steps |-> wrap.steps + 1]
  /\ UNCHANGED <<raw_values, time_buffer, fill_index, current_index, active, enabled, ui,
                 tim16_on, tim7_on, main_pc, detector, adc_log, pulses, hist,
                 lcd_brightness>>

NextWrap == WrapStep

\* the counter at 0, or WrapLead values before the end of its range
InitWrap == Boot /\ wrap \in {WrapInit(Zero32), WrapInit(Sub32(0, WrapLead))}

SpecWrap == InitWrap /\ [][NextWrap]_vars

\* the RR tracker by itself: the branch "if (result->is_qrs)" of a call that
\* has accepted an R peak d samples after the last one (the 200 ms latency
\* makes d greater than DELAY_200ms_IN_SAMPLES), followed by the four
\* assignments to the result record
AcceptedQrs(d, s) ==
  /\ hist.qrs_count < MaxRRBeats
  /\ d > DELAY_200ms_IN_SAMPLES
  /\ \E u \in {OnQrs([pt EXCEPT !.sample = pt.lastQRS + d],
                      [result EXCEPT !.is_qrs = TRUE])} :
       /\ pt' = u.pt
       /\ result' = WriteResult(u.result, u.pt)
       /\ hist' = [hist EXCEPT !.qrs_count = hist.qrs_count + 1,
                                !.qrs_prev = hist.qrs_last,
                                !.qrs_last = pt.lastQRS + d - 1,
                                !.steady = s,
                                !.updates = IF PastSkip(pt.rr_count)
                                            THEN hist.updates + 1 ELSE hist.updates,
                                !.rr_first = IF hist.rr_first = 0 /\ u.result.rr_average # 0
                                             THEN hist.qrs_count + 1 ELSE hist.rr_first]
  /\ UNCHANGED <<raw_values, time_buffer, filtered, fill_index, current_index, active,
                 enabled, ui, tim16_on, tim7_on, main_pc, dcblock, lowpass, highpass,
                 derivative, squared_derivative, integral, adc_log, pulses, wrap,
                 lcd_brightness>>

\* the intervals between accepted R peaks
RRIntervals == {BeatPeriod, SlowPeriod, LongGap}

\* an R peak of a changing rhythm; the first one is accepted by the first
\* call after the warm-up.  From this peak on the rhythm may be constant: then
\* every later peak comes s samples after the one before it
FreeBeat ==
  /\ hist.steady = 0
  /\ hist.updates < MaxFreeStores
  /\ \E d \in (IF hist.qrs_count = 0 THEN {WARMUP_SAMPLES + 1}
               ELSE IF PastSkip(pt.rr_count) THEN RRIntervals ELSE {BeatPeriod}) :
       \E s \in {0} \cup RRIntervals : AcceptedQrs(d, s)

\* an R peak of a constant rhythm
SteadyBeat ==
  /\ hist.steady # 0
  /\ AcceptedQrs(hist.steady, hist.steady)

NextRR == FreeBeat \/ SteadyBeat

SpecRR == Init /\ [][NextRR]_vars

\* the heart keeps beating and the detector keeps accepting its R peaks
SpecRRFair == Init /\ [][NextRR]_vars /\ WF_vars(NextRR)

\* the backlight under any sequence of calls of the two brightness functions
NextLcd == increase_brightness \/ decrease_brightness

SpecLcd == Init /\ [][NextLcd]_vars

\* the heart rate print_result shows:
\* #define RR_TO_PULSE(x) ((uint16_t) (x != 0 ? (60 * 200 / x) : x))
RR_TO_PULSE(x) ==
  IF x # 0 THEN U16((SECONDS_PER_MINUTE * SAMPLING_FREQUENCY) \div x) ELSE x

\* ------------------------------------------------------------ properties

C2_Refractory200 ==
  hist.qrs_count >= 2 => hist.qrs_last - hist.qrs_prev > DELAY_200ms_IN_SAMPLES

\* two accepted QRS events 41 samples apart on a pulsed input, with samples
\* above both thresholds turned down in the 200 ms between them
C2_Witness ==
  /\ hist.qrs_count >= 2
  /\ hist.qrs_last - hist.qrs_prev = DELAY_200ms_IN_SAMPLES + 1
  /\ hist.blocked_before > 0
  /\ hist.slope_seen > 0
  /\ pulses >= 1

\* C3: two consecutive accepted QRS events at a < b are more than
\* DELAY_360ms_IN_SAMPLES (72) samples apart, or the largest squared
\* derivative over b-10 .. b is strictly greater than half of the lastSlope
\* stored at a.
C3_SoftRefractorySlope ==
  hist.qrs_count >= 2 =>
     \/ hist.qrs_last - hist.qrs_prev > DELAY_360ms_IN_SAMPLES
     \/ 2 * hist.slope_seen > hist.slope_prev

\* a QRS accepted within 360 ms of the previous one, whose stored slope was
\* not zero
C3_Witness ==
  /\ hist.qrs_count >= 2
  /\ hist.qrs_last - hist.qrs_prev <= DELAY_360ms_IN_SAMPLES
  /\ hist.slope_prev > 0
  /\ 2 * hist.slope_seen > hist.slope_prev

\* C4: a call with current_index < 600 leaves is_qrs = false.
C4_WarmUpNoQrs ==
  (hist.last_call >= 0 /\ hist.last_call < WARMUP_SAMPLES) => ~result.is_qrs

\* a call inside the warm-up whose integrator and filtered values are both
\* above the thresholds
C4_Witness ==
  /\ hist.last_call >= 0 /\ hist.last_call < WARMUP_SAMPLES
  /\ pulses >= 1
  /\ integral[MOD_INDEX(hist.last_call)] > pt.threshold_i1
  /\ One * highpass[MOD_INDEX(hist.last_call)] > pt.threshold_f1
  /\ ~result.is_qrs

\* C5 (as claimed): with the input held at one value, no call returns
\* is_qrs = true and the result keeps rr_average = 0 and evaluation = 0.
C5_ConstantInputSilent ==
  /\ ~result.is_qrs
  /\ result.rr_average = 0
  /\ result.evaluation = 0

\* C6 (as claimed): rr_average is non-zero from the 8th accepted QRS on and
\* zero before it.
C6_FirstAverageAtEighth ==
  (result.rr_average # 0) <=> (hist.qrs_count >= RR_INTERVALS_TO_SKIP + 1)

\* C7: process_pan_tompkins is called with an index below fill_index, and
\* unless the ISR has run BUFFER_SIZE samples ahead, signal[i] and signal[i-1]
\* as the call reads them are the values the ISR stored for i and i-1.
C7_ReadsPublished ==
  hist.last_call >= 0 =>
     /\ hist.last_call < fill_index
     /\ ~hist.overrun =>
          /\ hist.read_cur = adc_log[hist.last_call + 1]
          /\ hist.last_call >= 1 => hist.read_prev = adc_log[hist.last_call]

\* a call that read two different samples while the ISR was already two
\* samples ahead of it
C7_Witness ==
  /\ hist.last_call >= 1
  /\ hist.read_cur # hist.read_prev
  /\ fill_index >= hist.last_call + 2
  /\ current_index = hist.last_call + 1

\* what a TIM16 tick may change
TickFrame ==
  /\ UNCHANGED <<current_index, detector>>
  /\ \A s \in Slots \ {MOD_INDEX(fill_index)} :
        raw_values'[s] = raw_values[s] /\ time_buffer'[s] = time_buffer[s]
  /\ fill_index' = IF enabled THEN fill_index + 1 ELSE fill_index

\* C8: a TIM16 tick changes only slot fill_index mod N of raw_values and
\* time_buffer and adds one to fill_index; current_index, the filter
\* buffers, the detector state and the result record stay as they were.
C8_TickFrame == [][(\E adc \in RawSet : TIM16_PeriodElapsed(adc)) => TickFrame]_vars

\* ticks have arrived after the detector has run: the ISR is ahead of the
\* main loop and the filter buffers are no longer zero
C8_Witness ==
  /\ hist.calls >= 2
  /\ fill_index > current_index
  /\ lowpass # ZeroBuffer

\* C9 (as claimed): once enabled is false, nothing of fill_index,
\* current_index, the raw and filter buffers, the detector state and the
\* result record changes any more, and enabled stays false.
C9_FrozenAfterShutdown ==
  [][~enabled => UNCHANGED <<enabled, fill_index, current_index, raw_values, detector>>]_vars

\* C11 (as claimed): after every call, threshold_i2 is half of threshold_i1
\* and threshold_f2 is half of threshold_f1.
C11_SecondaryIsHalf ==
  /\ pt.threshold_i2 = Half(pt.threshold_i1)
  /\ pt.threshold_f2 = Half(pt.threshold_f1)

\* the sum of the n intervals stored last in an RR buffer
RECURSIVE StoredSum(_, _)
StoredSum(rr, n) ==
  IF n = 0 THEN 0 ELSE rr[MAX_RR_AVERAGE_INDEX - (n - 1)] + StoredSum(rr, n - 1)

\* C12 (as claimed): after every RR update rravg1 is the integer mean of the
\* intervals stored in rr1 and rravg2 the integer mean of the intervals
\* stored in rr2, also when rr2 holds fewer intervals than rr1.
C12_AveragesAreMeans ==
  /\ hist.rr1_n >= 1 => pt.rravg1 = StoredSum(pt.rr1, hist.rr1_n) \div hist.rr1_n
  /\ hist.rr2_n >= 1 => pt.rravg2 = StoredSum(pt.rr2, hist.rr2_n) \div hist.rr2_n

C14_Evaluation ==
  /\ hist.rr1_n = 0 => result.evaluation = 0
  /\ hist.rr1_n >= 1 => result.evaluation = (IF pt.regular THEN 1 ELSE 2)

\* an irregular rhythm: two intervals or more recorded, one of them not
\* taken into rr2
C14_Witness ==
  /\ hist.updates >= 2
  /\ hist.rr2_n < hist.rr1_n
  /\ result.evaluation = 2

\* a call of process_pan_tompkins in the soft-refractory window whose values
\* are at or above both primary thresholds and whose slope is at most half
\* of lastSlope
TWaveCall ==
  /\ hist'.calls = hist.calls + 1
  /\ current_index >= WARMUP_SAMPLES
  /\ current_index + 1 > pt.lastQRS + DELAY_200ms_IN_SAMPLES
  /\ current_index + 1 <= pt.lastQRS + DELAY_360ms_IN_SAMPLES
  /\ integral'[array_index] >= pt.threshold_i1
  /\ One * highpass'[array_index] >= pt.threshold_f1
  /\ 2 * MaxOver(squared_derivative', current_index) <= pt.lastSlope

\* C15 (as claimed): a call rejected as a T-wave returns is_qrs = false and
\* leaves the four thresholds and the signal and noise peak estimates
\* unchanged.
C15_TWaveLeavesThresholds ==
  [][TWaveCall =>
       /\ ~result'.is_qrs
       /\ pt'.threshold_i1 = pt.threshold_i1 /\ pt'.threshold_i2 = pt.threshold_i2
       /\ pt'.threshold_f1 = pt.threshold_f1 /\ pt'.threshold_f2 = pt.threshold_f2
       /\ pt'.signalpeak_i = pt.signalpeak_i /\ pt'.signalpeak_f = pt.signalpeak_f
       /\ pt'.noisepeak_i = pt.noisepeak_i /\ pt'.noisepeak_f = pt.noisepeak_f]_vars

\* C15 (amended): a call rejected as a T-wave returns is_qrs = false and
\* leaves the signal peak estimates, lastSlope and lastQRS unchanged; it is
\* taken as a noise peak: both noise peak estimates move to
\* 0.125 * value + 0.875 * estimate, once or twice over, and the thresholds
\* are recomputed from them.
C15_TWaveIsNoise ==
  [][TWaveCall =>
       LET iv == integral'[array_index]
           hv == One * highpass'[array_index]
           once_i == Mix(iv, pt.noisepeak_i)
           once_f == Mix(hv, pt.noisepeak_f)
       IN /\ ~result'.is_qrs
          /\ pt'.signalpeak_i = pt.signalpeak_i /\ pt'.signalpeak_f = pt.signalpeak_f
          /\ pt'.lastSlope = pt.lastSlope /\ pt'.lastQRS = pt.lastQRS
          /\ \/ pt'.noisepeak_i = once_i /\ pt'.noisepeak_f = once_f
             \/ pt'.noisepeak_i = Mix(iv, once_i) /\ pt'.noisepeak_f = Mix(hv, once_f)
          /\ pt'.threshold_i1 = Threshold1(pt.signalpeak_i, pt'.noisepeak_i)
          /\ pt'.threshold_f1 = Threshold1(pt.signalpeak_f, pt'.noisepeak_f)
          /\ pt'.threshold_i2 = Half(pt'.threshold_i1)
          /\ pt'.threshold_f2 = Half(pt'.threshold_f1)]_vars

\* the call that has just returned was turned down by the slope test, on a
\* pulse weaker than the beat before it, with thresholds above zero
C15_Witness ==
  /\ hist.twave = hist.last_call
  /\ pulses = 3
  /\ ~result.is_qrs
  /\ pt.lastSlope > 0
  /\ pt.threshold_i1 > 0
  /\ integral[MOD_INDEX(hist.twave)] >= pt.threshold_i1

\* C16: a call that returns is_qrs = false leaves lastQRS, lastSlope, rr1,
\* rr2, rravg1, rravg2, rrlow, rrhigh, rrmiss, rr_count,
\* last_rr_average_index, regular and the result fields rr_average,
\* is_regular and evaluation unchanged.
C16_TrackerOnlyOnQrs ==
  [][(hist'.calls = hist.calls + 1 /\ ~result'.is_qrs) =>
       /\ pt'.lastQRS = pt.lastQRS /\ pt'.lastSlope = pt.lastSlope
       /\ pt'.rr1 = pt.rr1 /\ pt'.rr2 = pt.rr2
       /\ pt'.rravg1 = pt.rravg1 /\ pt'.rravg2 = pt.rravg2
       /\ pt'.rrlow = pt.rrlow /\ pt'.rrhigh = pt.rrhigh /\ pt'.rrmiss = pt.rrmiss
       /\ pt'.rr_count = pt.rr_count
       /\ pt'.last_rr_average_index = pt.last_rr_average_index
       /\ pt'.regular = pt.regular
       /\ result'.rr_average = result.rr_average
       /\ result'.is_regular = result.is_regular
       /\ result'.evaluation = result.evaluation]_vars

\* RR intervals are on record and the call that has just returned was a
\* noise peak inside the 200 ms after the last QRS
C16_Witness ==
  /\ hist.updates >= 2
  /\ hist.last_call = current_index - 1
  /\ ~result.is_qrs
  /\ hist.above_both
  /\ hist.blocked > 0
  /\ result.rr_average > 0

\* C17: on an RR update, threshold_i1 and threshold_f1 end at half of the
\* values the qualifier set exactly when regular was true before the update
\* and is false after it, and at the qualifier's values otherwise; with
\* intervals of 200 and then 180 samples the flag goes to false on the
\* second of them.
C17_HalvedOnTransition ==
  [][(hist'.updates = hist.updates + 1) =>
       LET flip == pt.regular /\ ~pt'.regular
           set_i == Threshold1(pt'.signalpeak_i, pt'.noisepeak_i)
           set_f == Threshold1(pt'.signalpeak_f, pt'.noisepeak_f)
       IN /\ pt'.threshold_i1 = (IF flip THEN Half(set_i) ELSE set_i)
          /\ pt'.threshold_f1 = (IF flip THEN Half(set_f) ELSE set_f)
          /\ pt'.prevRegular = pt.regular
          /\ ( /\ hist'.updates = 2
               /\ pt'.rr1[MAX_RR_AVERAGE_INDEX - 1] = 200
               /\ pt'.rr1[MAX_RR_AVERAGE_INDEX] = 180 ) => flip]_vars

\* intervals of 200 and 180 samples are on record, the second has turned
\* the flag to false and threshold_i1 has been halved, down to threshold_i2
C17_Witness ==
  /\ hist.updates = 2
  /\ hist.qrs_last = hist.last_call
  /\ pt.rr1[MAX_RR_AVERAGE_INDEX - 1] = 200
  /\ pt.rr1[MAX_RR_AVERAGE_INDEX] = 180
  /\ pt.prevRegular /\ ~pt.regular
  /\ pt.threshold_i1 > 0
  /\ pt.threshold_i1 = pt.threshold_i2

\* C18 (as claimed): when the accepted QRS events are 200 samples apart,
\* then from the 8th of them on the result has rr_average = 200,
\* is_regular = true and evaluation = 1.
C18_SteadyAfterEight ==
  (hist.qrs_count >= 8 /\ hist.every_second) =>
     /\ result.rr_average = 200
     /\ result.is_regular
     /\ result.evaluation = 1

\* C19 (as claimed): after every call process_pan_tompkins(i) the stored
\* last-QRS position is at most i, and the sample counter is i + 1.
C19_LastQrsAtMostIndex ==
  hist.last_call >= 0 =>
     /\ pt.lastQRS <= hist.last_call
     /\ pt.sample = hist.last_call + 1

\* C19 (amended): after every call process_pan_tompkins(i) the sample counter
\* is i + 1 and the stored last-QRS position is at most i + 1: it is 0
\* until the first accepted QRS and afterwards the sample counter of the call
\* that accepted the most recent QRS, one more than that call's index.
C19_LastQrsIsSampleCount ==
  hist.last_call >= 0 =>
     /\ pt.sample = hist.last_call + 1
     /\ pt.lastQRS <= pt.sample
     /\ (hist.qrs_count = 0 => pt.lastQRS = 0)
     /\ (hist.qrs_count >= 1 => pt.lastQRS = hist.qrs_last + 1)

\* a call that accepted no QRS, after one that did
C19_Witness ==
  /\ hist.qrs_count >= 1
  /\ hist.last_call > hist.qrs_last
  /\ pt.lastQRS = hist.qrs_last + 1
  /\ pt.lastQRS < pt.sample

\* C20 (as claimed): after process_pan_tompkins(i) the stored DC-block value
\* is 0 for i = 0 and, for i >= 1, exactly
\* raw[i] - raw[i-1] + 0.995 * dc[i-1] as a real number, with no truncation
\* (written here with both sides multiplied by 1000).
C20_DcBlockIsExact ==
  hist.last_call >= 0 =>
     IF hist.last_call = 0
     THEN dcblock[0] = 0
     ELSE 1000 * dcblock[MOD_INDEX(hist.last_call)]
            = 1000 * (hist.read_cur - hist.read_prev)
                + 995 * dcblock[MOD_INDEX(hist.last_call - 1)]

\* C21 (as claimed): a call of process_pan_tompkins whose index is not the
\* previous call's index + 1 is turned down: it updates neither the filter
\* buffers nor the detector state.
C21_OutOfOrderIsFatal ==
  [][(/\ hist'.calls = hist.calls + 1
      /\ hist.last_call >= 0
      /\ hist'.last_call # hist.last_call + 1)
        => UNCHANGED <<buffers, pt>>]_vars

\* a call past the warm-up whose values are below both thresholds leaves
\* the thresholds as it found them, so they keep the values of sat_i and
\* sat_f for as long as the input stays below them
StuckWhileBelow ==
  hist.below >= 1 => pt.threshold_i1 = hist.sat_i /\ pt.threshold_f1 = hist.sat_f

C23_SlotIsIndexMod ==
  wrap.slot >= 0 =>
     /\ wrap.slot = Mod32(wrap.at, BUFFER_SIZE)
     /\ \A k \in 0 .. (BUFFER_SIZE - 1) :
           MOD_INDEX_32(Sub32(wrap.slot, k))
             = (Mod32(wrap.at, BUFFER_SIZE) + BUFFER_SIZE - k) % BUFFER_SIZE
     /\ MOD_INDEX_32(wrap.index) = (wrap.slot + 1) % BUFFER_SIZE



\* rule N applied n times to the scalars p, for the sample values iv, hv
RECURSIVE NoiseTimes(_, _, _, _)
NoiseTimes(p, iv, hv, n) ==
  IF n = 0 THEN p ELSE NoiseUpdate(NoiseTimes(p, iv, hv, n - 1), iv, hv)

\* the noise estimates and the four thresholds of p and q are the same
SameNoise(p, q) ==
  /\ p.noisepeak_i = q.noisepeak_i /\ p.noisepeak_f = q.noisepeak_f
  /\ p.threshold_i1 = q.threshold_i1 /\ p.threshold_f1 = q.threshold_f1
  /\ p.threshold_i2 = q.threshold_i2 /\ p.threshold_f2 = q.threshold_f2

\* C24 (as claimed): a call at index >= 600 that accepts no QRS leaves the
\* noise estimates and thresholds as rule N applied exactly twice gives them
\* when the sample is above both thresholds at most 40 samples after the last
\* QRS, as rule N applied exactly once when the sample is above one threshold
\* but not both, and unchanged when it is below both.
C24_NoiseUpdateCount ==
  [][(/\ hist'.calls = hist.calls + 1
      /\ current_index >= WARMUP_SAMPLES
      /\ ~result'.is_qrs)
        => LET iv == integral'[array_index]
               hv == One * highpass'[array_index]
           IN /\ (AboveBoth(pt, iv, hv) /\ ~Past200ms(current_index + 1, pt.lastQRS))
                    => SameNoise(pt', NoiseTimes(pt, iv, hv, 2))
              /\ (AboveOne(pt, iv, hv) /\ ~AboveBoth(pt, iv, hv))
                    => SameNoise(pt', NoiseTimes(pt, iv, hv, 1))
              /\ ~AboveOne(pt, iv, hv) => SameNoise(pt', pt)]_vars

\* buffer b after the step differs from b before it in slot s at most
OnlySlot(before, after, s) == \A t \in Slots \ {s} : after[t] = before[t]

\* C25: a call with current_index < 600 writes slot current_index mod 500 of
\* the seven filter buffers and no other slot, sets result.is_qrs = false and
\* leaves the rest of the result record and, the sample counter aside, all
\* of the detector's scalars as they were (peaks, thresholds, estimates,
\* lastQRS, lastSlope, the RR tracker); the thresholds are still 0 after it.
C25_WarmUpFrame ==
  [][(hist'.calls = hist.calls + 1 /\ current_index < WARMUP_SAMPLES)
        => /\ OnlySlot(dcblock, dcblock', array_index)
           /\ OnlySlot(lowpass, lowpass', array_index)
           /\ OnlySlot(highpass, highpass', array_index)
           /\ OnlySlot(filtered, filtered', array_index)
           /\ OnlySlot(derivative, derivative', array_index)
           /\ OnlySlot(squared_derivative, squared_derivative', array_index)
           /\ OnlySlot(integral, integral', array_index)
           /\ filtered'[array_index] = highpass'[array_index]
           /\ result' = [result EXCEPT !.is_qrs = FALSE]
           /\ pt' = [pt EXCEPT !.sample = current_index + 1]
           /\ pt'.threshold_i1 = 0 /\ pt'.threshold_f1 = 0
           /\ pt'.threshold_i2 = 0 /\ pt'.threshold_f2 = 0]_vars

\* the last warm-up call is over, the filter chain has answered a pulse,
\* and the detector meets index 600 with its thresholds at 0
C25_Witness ==
  /\ hist.last_call = WARMUP_SAMPLES - 1
  /\ integral[MOD_INDEX(hist.last_call)] > 0
  /\ highpass[MOD_INDEX(hist.last_call)] # 0
  /\ ~result.is_qrs
  /\ pt.sample = WARMUP_SAMPLES
  /\ pt.threshold_i1 = 0 /\ pt.threshold_f1 = 0

\* the scalars p with the half thresholds and rrmiss put to 0
Blind(p) == [p EXCEPT !.threshold_i2 = 0, !.threshold_f2 = 0, !.rrmiss = 0]

Appended(before, after, interval) ==
  /\ \A n \in 0 .. (MAX_RR_AVERAGE_INDEX - 1) : after[n] = before[n + 1]
  /\ after[MAX_RR_AVERAGE_INDEX] = interval

\* C27: an RR-tracker update appends the new interval to rr1 in every case;
\* it appends it to rr2 and recomputes rravg2, rrlow, rrhigh and rrmiss if
\* and only if rrlow <= interval <= rrhigh for the bounds as the call found
\* them, and otherwise leaves rr2, rravg2, rrlow, rrhigh and rrmiss as they
\* were.
C27_NormalInterval ==
  [][(hist'.updates = hist.updates + 1)
        => \E interval \in {(current_index + 1 - pt.lastQRS) % UINT16_MOD} :
              /\ Appended(pt.rr1, pt'.rr1, interval)
              /\ IF pt.rrlow <= interval /\ interval <= pt.rrhigh
                 THEN /\ Appended(pt.rr2, pt'.rr2, interval)
                      /\ pt'.rravg2 = StoredSum(pt'.rr2, MAX_RR_AVERAGE_INDEX + 1)
                                        \div (pt.last_rr_average_index + 1)
                      /\ pt'.rrlow = Mul092(pt'.rravg2)
                      /\ pt'.rrhigh = Mul116(pt'.rravg2)
                      /\ pt'.rrmiss = Mul166(pt'.rravg2)
                 ELSE /\ pt'.rr2 = pt.rr2
                      /\ pt'.rravg2 = pt.rravg2
                      /\ pt'.rrlow = pt.rrlow /\ pt'.rrhigh = pt.rrhigh
                      /\ pt'.rrmiss = pt.rrmiss]_vars

\* updates of both kinds have happened: the first interval met the initial
\* bounds 100 and 200 at their upper end, a later one fell outside the
\* bounds and was kept out of rr2
C27_Witness ==
  /\ hist.updates >= 2
  /\ hist.rr2_n >= 1
  /\ hist.rr2_n < hist.rr1_n
  /\ pt.rr2[MAX_RR_AVERAGE_INDEX] = RRHIGH_INIT
  /\ pt.rr1[MAX_RR_AVERAGE_INDEX] < pt.rrlow
  /\ pt.rrlow # RRLOW_INIT

Least(a, b) == IF a <= b THEN a ELSE b

\* C29 (as claimed): after n RR-tracker updates last_rr_average_index is
\* min(n, 8), and the divisor of rravg1 at the n-th update is min(n, 8).
C29_CountUpToEight ==
  /\ pt.last_rr_average_index = Least(hist.updates, MAX_RR_AVERAGE_INDEX + 1)
  /\ hist.updates >= 1 =>
        pt.rravg1 = StoredSum(pt.rr1, MAX_RR_AVERAGE_INDEX + 1)
                      \div Least(hist.updates, MAX_RR_AVERAGE_INDEX + 1)

\* C29 (amended): after n RR-tracker updates last_rr_average_index is
\* min(n, 7): it goes up by one on each update and stays at
\* MAX_RR_AVERAGE_INDEX = 7.  The divisor of rravg1 at the n-th update is
\* the counter as the update found it plus one, which is min(n, 8), the
\* number of intervals stored in rr1.
C29_CountUpToSeven ==
  /\ pt.last_rr_average_index = Least(hist.updates, MAX_RR_AVERAGE_INDEX)
  /\ hist.updates >= 1 =>
        /\ pt.max_index + 1 = Least(hist.updates, MAX_RR_AVERAGE_INDEX + 1)
        /\ hist.rr1_n = Least(hist.updates, MAX_RR_AVERAGE_INDEX + 1)
        /\ pt.rravg1 = StoredSum(pt.rr1, MAX_RR_AVERAGE_INDEX + 1)
                         \div Least(hist.updates, MAX_RR_AVERAGE_INDEX + 1)

\* more updates than rr1 has places: the counter has stopped at 7 and the
\* average is taken over the eight stored intervals
C29_Witness ==
  /\ hist.updates > MAX_RR_AVERAGE_INDEX + 1
  /\ pt.last_rr_average_index = MAX_RR_AVERAGE_INDEX
  /\ pt.rr1[0] > 0
  /\ pt.rravg1 > 0
  /\ result.rr_average = pt.rravg1

\* C30 (as claimed): after every call of process_pan_tompkins, at any index,
\* result.peaki, signalpeaki, noisepeaki and thi1 equal peak_i,
\* signalpeak_i, noisepeak_i and threshold_i1, result.rr_average equals
\* rravg1 and result.is_regular equals the flag 'regular'.
C30_ResultMirrorsDetector ==
  hist.last_call >= 0 =>
     /\ result.peaki = pt.peak_i
     /\ result.signalpeaki = pt.signalpeak_i
     /\ result.noisepeaki = pt.noisepeak_i
     /\ result.thi1 = pt.threshold_i1
     /\ result.rr_average = pt.rravg1
     /\ result.is_regular = pt.regular

\* C30 (amended): after every call, at any index, result.peaki, signalpeaki,
\* noisepeaki and thi1 equal peak_i, signalpeak_i, noisepeak_i and
\* threshold_i1 (thi1 also after a halving) and result.rr_average equals
\* rravg1; result.is_regular equals 'regular' from the first RR-tracker
\* update on, and until then it is false while 'regular' is true.
C30_ResultAfterCall ==
  hist.last_call >= 0 =>
     /\ result.peaki = pt.peak_i
     /\ result.signalpeaki = pt.signalpeak_i
     /\ result.noisepeaki = pt.noisepeak_i
     /\ result.thi1 = pt.threshold_i1
     /\ result.rr_average = pt.rravg1
     /\ IF hist.updates >= 1
        THEN result.is_regular = pt.regular
        ELSE ~result.is_regular /\ pt.regular

\* the call that turned the rhythm from regular to irregular and halved the
\* thresholds: the result record shows the halved threshold_i1
C30_Witness ==
  /\ result.is_qrs
  /\ hist.updates >= 2
  /\ pt.prevRegular /\ ~pt.regular /\ ~result.is_regular
  /\ result.thi1 > 0
  /\ result.thi1 = pt.threshold_i1
  /\ result.thi1 # Threshold1(pt.signalpeak_i, pt.noisepeak_i)
  /\ result.rr_average > 0

\* the loop body runs for current_index and calls process_pan_tompkins with
\* it: the call reads the sample the ISR stored for this index and writes
\* this index's slot of the filter chain from it
Processed ==
  /\ current_index' = current_index + 1
  /\ hist'.calls = hist.calls + 1
  /\ hist'.last_call = current_index
  /\ raw_values[array_index] = adc_log[current_index + 1]
  /\ hist'.read_cur = adc_log[current_index + 1]
  /\ dcblock'[array_index] =
        (IF current_index >= 1 THEN DcBlock(raw_values, dcblock, array_index) ELSE 0)
  /\ lowpass'[array_index] = LowPass(dcblock', lowpass, array_index)
  /\ filtered'[array_index] = highpass'[array_index]

\* every index the ISR has published is consumed, unless the monitor is
\* shut down first
Consumed ==
  \A i \in 0 .. (MaxFill - 1) :
     (fill_index > i /\ enabled) ~> (current_index > i \/ ~enabled)

C32_IntervalsStoredExactly ==
  /\ hist.updates >= 1 =>
       /\ pt.rr1[MAX_RR_AVERAGE_INDEX] = hist.qrs_last - hist.qrs_prev
       /\ pt.rr1[MAX_RR_AVERAGE_INDEX] > DELAY_200ms_IN_SAMPLES
  /\ result.rr_average # 0 =>
       /\ result.rr_average >= DELAY_200ms_IN_SAMPLES + 1
       /\ RR_TO_PULSE(result.rr_average) <= RR_TO_PULSE(DELAY_200ms_IN_SAMPLES + 1)

\* C33: a call that returns is_qrs = true assigns the 0.125/0.875 mix of the
\* peak, taken once, to signalpeak_i and signalpeak_f and leaves noisepeak_i
\* and noisepeak_f as they were; a call that returns is_qrs = false leaves
\* signalpeak_i, signalpeak_f and lastSlope as they were.
C33_SignalOrNoise ==
  [][hist'.calls = hist.calls + 1 =>
       IF result'.is_qrs
       THEN /\ pt'.signalpeak_i = Mix(integral'[array_index], pt.signalpeak_i)
            /\ pt'.signalpeak_f = Mix(One * highpass'[array_index], pt.signalpeak_f)
            /\ pt'.noisepeak_i = pt.noisepeak_i
            /\ pt'.noisepeak_f = pt.noisepeak_f
       ELSE /\ pt'.signalpeak_i = pt.signalpeak_i
            /\ pt'.signalpeak_f = pt.signalpeak_f
            /\ pt'.lastSlope = pt.lastSlope]_vars

\* an R peak accepted after a peak within the 200 ms latency had gone to the
\* noise estimates: both pairs of estimates hold a value
C33_Witness ==
  /\ result.is_qrs
  /\ hist.qrs_last = hist.last_call
  /\ hist.qrs_count >= 2
  /\ hist.blocked_before >= 1
  /\ pt.signalpeak_i > 0 /\ pt.signalpeak_f > 0
  /\ pt.noisepeak_i > 0 /\ pt.noisepeak_f > 0

\* C34: under every interleaving of ISR ticks and main-loop iterations,
\* current_index never exceeds fill_index; fill_index changes only in a TIM16
\* tick and current_index only in an iteration of the loop of display_graph,
\* each time by exactly one upwards.
C34_IndexDiscipline ==
  /\ [](current_index <= fill_index)
  /\ [][/\ fill_index' # fill_index =>
             /\ fill_index' = fill_index + 1
             /\ \E adc \in RawSet : TIM16_PeriodElapsed(adc)
        /\ current_index' # current_index =>
             /\ current_index' = current_index + 1
             /\ display_graph_iter
        /\ (\E adc \in RawSet : TIM16_PeriodElapsed(adc)) => current_index' = current_index
        /\ display_graph_iter => fill_index' = fill_index]_vars

\* the ISR has published every sample while the loop has consumed one of
\* them and is still running
C34_Witness ==
  /\ fill_index = MaxFill
  /\ current_index = 1
  /\ main_pc = "loop"
  /\ hist.calls + hist.skipped = 1

\* C35: while 'paused' is true no step calls process_pan_tompkins, so the
\* filter buffers, the detector state and the result record stay as they are,
\* while the loop of display_graph still moves current_index on, one index
\* per iteration, until it has reached fill_index; every call, the first one
\* after the pause included, is made with the index the counter has reached.
C35_PauseSkipsSamples ==
  /\ (paused /\ enabled /\ main_pc = "loop" /\ fill_index > current_index)
        ~> (current_index = fill_index \/ ~paused)
  /\ [][/\ paused => hist'.calls = hist.calls /\ UNCHANGED detector
        /\ paused /\ display_graph_iter =>
             /\ current_index' = current_index + 1
             /\ hist'.skipped = hist.skipped + 1
        /\ hist'.calls = hist.calls + 1 =>
             /\ hist'.last_call = current_index
             /\ current_index = hist.calls + hist.skipped]_vars

\* index 0 processed, index 1 passed over during a pause, and the first call
\* after the pause made with index 2
C35_Witness ==
  /\ ~paused
  /\ hist.skipped = 1
  /\ hist.calls = 2
  /\ hist.prev_call = 0
  /\ hist.last_call = 2
  /\ current_index = 3

\* the RR tracker has taken up a constant rhythm whose interval it does not
\* count as normal: rr1 holds nothing but that interval
Settled ==
  /\ hist.steady # 0
  /\ pt.last_rr_average_index = MAX_RR_AVERAGE_INDEX
  /\ \A n \in 0 .. MAX_RR_AVERAGE_INDEX : pt.rr1[n] = U16(hist.steady)
  /\ ~Normal(U16(hist.steady), pt.rrlow, pt.rrhigh)

\* once settled, a further R peak of the same rhythm changes nothing of the
\* RR tracker: the regularity flag keeps the value it has
SettledForGood ==
  [][Settled =>
       /\ Settled'
       /\ pt'.rravg1 = pt.rravg1 /\ pt'.rravg2 = pt.rravg2
       /\ pt'.rr2 = pt.rr2
       /\ pt'.regular = pt.regular
       /\ result'.is_regular = result.is_regular]_vars

C37_BrightnessInRange ==
  /\ [](lcd_brightness >= MIN_BRIGHTNESS /\ lcd_brightness <= MAX_BRIGHTNESS)
  /\ [][/\ increase_brightness /\ lcd_brightness = MAX_BRIGHTNESS
             => lcd_brightness' = MAX_BRIGHTNESS
        /\ decrease_brightness /\ lcd_brightness = MIN_BRIGHTNESS
             => lcd_brightness' = MIN_BRIGHTNESS]_vars

=============================================================================
